---- MODULE Spec2Model ----
(***************************************************************************)
(* The event-driven backtest of src/strategy/strat_temp.py: calc_atr and   *)
(* run_backtest.  A run computes the indicator columns of a bar table df   *)
(* and then walks the rows from index ma_slow to the last one, holding at  *)
(* most one position and appending one trade per closed position.          *)
(*                                                                         *)
(* Prices are floats in the source.  Here a number is an exact fraction    *)
(* [num, den] with den > 0, and the missing value NaN is the pair with     *)
(* den = 0; every comparison with NaN is FALSE, as for IEEE floats.        *)
(* Rounding of the float arithmetic is not modelled.                       *)
(* Row indices are 0-based as in the source; df is a sequence, so row i    *)
(* of the source is df[i + 1].                                             *)
(***************************************************************************)
EXTENDS Integers, Sequences, FiniteSets

VARIABLES
    df,         \* the bar table passed to run_backtest
    cfg,        \* ma_fast, ma_slow, atr_period, atr_multiplier of the call
    i,          \* the loop index
    position,   \* None, or the one open position
    trades,     \* the list of closed trades of the running call
    pc,         \* "loop" inside run_backtest, "returned" after it
    ledgers,    \* the trade tables returned so far, one per call
    entries     \* history: the number of positions opened by the running call

vars == <<df, cfg, i, position, trades, pc, ledgers, entries>>

----------------------------------------------------------------------------
(* Bounds of the checked instances. *)

MaxBars == 6

(* Price levels of the bars. *)
Prices == {1, 2, 3}

----------------------------------------------------------------------------
(* Float arithmetic, as exact fractions with NaN. *)

NaN == [num |-> 0, den |-> 0]

Num(n) == [num |-> n, den |-> 1]

IsNaN(a) == a.den = 0

Le(a, b) == ~IsNaN(a) /\ ~IsNaN(b) /\ a.num * b.den <= b.num * a.den

Lt(a, b) == ~IsNaN(a) /\ ~IsNaN(b) /\ a.num * b.den < b.num * a.den

Gt(a, b) == Lt(b, a)

Eq(a, b) == ~IsNaN(a) /\ ~IsNaN(b) /\ a.num * b.den = b.num * a.den

Sub(a, b) ==
    IF IsNaN(a) \/ IsNaN(b) THEN NaN
    ELSE [num |-> a.num * b.den - b.num * a.den, den |-> a.den * b.den]

Mul(a, b) ==
    IF IsNaN(a) \/ IsNaN(b) THEN NaN
    ELSE [num |-> a.num * b.num, den |-> a.den * b.den]

Div(a, b) ==
    IF IsNaN(a) \/ IsNaN(b) \/ b.num = 0 THEN NaN
    ELSE IF b.num > 0 THEN [num |-> a.num * b.den, den |-> a.den * b.num]
    ELSE [num |-> -(a.num * b.den), den |-> -(a.den * b.num)]

Abs(n) == IF n < 0 THEN -n ELSE n

Max(a, b) == IF a >= b THEN a ELSE b

----------------------------------------------------------------------------
(* The bar table and its indicator columns. *)

None == <<>>

len == Len(df)

iloc(k) == df[k + 1]

Close(k) == iloc(k).close

(* Mutant: the missing previous close of row 0 is read as 0. *)
TrueRange_ZeroPrev(k) ==
    LET tr1 == iloc(k).high - iloc(k).low
        prev_close == IF k = 0 THEN 0 ELSE Close(k - 1)
    IN  Max(tr1, Max(Abs(iloc(k).high - prev_close),
                     Abs(iloc(k).low - prev_close)))

(* tr of calc_atr: the row-wise max skips the NaN that shift(1) leaves in  *)
(* row 0, so row 0 has high - low.                                         *)
TrueRange(k) ==
    LET tr1 == iloc(k).high - iloc(k).low
    IN  IF k = 0 THEN tr1
        ELSE Max(tr1, Max(Abs(iloc(k).high - Close(k - 1)),
                          Abs(iloc(k).low - Close(k - 1))))

(* The value of a column at row k: "close", or "tr" of calc_atr. *)
Cell(col, k) == IF col = "tr" THEN TrueRange(k) ELSE Close(k)

RECURSIVE RollingSum(_, _, _)
RollingSum(col, k, window) ==
    IF window = 0 THEN 0 ELSE Cell(col, k) + RollingSum(col, k - 1, window - 1)

(* Mutant: the mean is missing for one row more, rows 0..window-1. *)
RollingMean_OneRowLate(col, k, window) ==
    IF k < window THEN NaN
    ELSE [num |-> RollingSum(col, k, window), den |-> window]

(* Series.rolling(window).mean() at row k: NaN until window rows exist. *)
RollingMean(col, k, window) ==
    IF k + 1 < window THEN NaN
    ELSE [num |-> RollingSum(col, k, window), den |-> window]

calc_atr(k, period) == RollingMean("tr", k, period)

ma_fast(k) == RollingMean("close", k, cfg.ma_fast)

ma_slow(k) == RollingMean("close", k, cfg.ma_slow)

atr(k) == calc_atr(k, cfg.atr_period)

uptrend(k) == Gt(ma_fast(k), ma_slow(k))

----------------------------------------------------------------------------
(* The loop body of run_backtest. *)

(* Mutant: the cross is tested against the current fast MA. *)
EntrySignal_CurrentMA(k) ==
    /\ uptrend(k)
    /\ Le(Num(Close(k - 1)), ma_fast(k - 1))
    /\ Lt(ma_fast(k), Num(Close(k)))

(* Mutant: the previous close is not tested against the fast MA. *)
EntrySignal_NoPrevTest(k) ==
    /\ uptrend(k)
    /\ Lt(ma_fast(k - 1), Num(Close(k)))

(* Mutant: the entry does not test the trend. *)
EntrySignal_NoTrend(k) ==
    /\ Le(Num(Close(k - 1)), ma_fast(k - 1))
    /\ Lt(ma_fast(k - 1), Num(Close(k)))

EntrySignal(k) ==
    /\ uptrend(k)
    /\ Le(Num(Close(k - 1)), ma_fast(k - 1))
    /\ Lt(ma_fast(k - 1), Num(Close(k)))

NewPosition(k) ==
    [entry_date  |-> iloc(k).date,
     entry_price |-> Num(Close(k)),
     stop_loss   |-> Sub(Num(Close(k)), Mul(Num(cfg.atr_multiplier), atr(k)))]

(* Mutant: the stop is tested against the close of the row. *)
StopLossHit_CloseTest(pos, k) == Le(Num(Close(k)), pos.stop_loss)

StopLossHit(pos, k) == Le(Num(iloc(k).low), pos.stop_loss)

TrendReversal(k) == uptrend(k - 1) /\ ~uptrend(k)

(* Mutant: the trend reversal is tested before the stop. *)
ExitReason_TrendFirst(pos, k) ==
    IF TrendReversal(k) THEN "TrendReversal"
    ELSE IF StopLossHit(pos, k) THEN "StopLoss"
    ELSE "None"

ExitReason(pos, k) ==
    IF StopLossHit(pos, k) THEN "StopLoss"
    ELSE IF TrendReversal(k) THEN "TrendReversal"
    ELSE "None"

(* Mutant: a trend-reversal exit is priced at the previous close. *)
ExitPrice_PrevClose(pos, k) ==
    IF StopLossHit(pos, k) THEN pos.stop_loss ELSE Num(Close(k - 1))

ExitPrice(pos, k) ==
    IF StopLossHit(pos, k) THEN pos.stop_loss ELSE Num(Close(k))

(* Mutant: the return is left as a fraction. *)
PnlPct_Fraction(entry_price, exit_price) ==
    Div(Sub(exit_price, entry_price), entry_price)

PnlPct(entry_price, exit_price) ==
    Mul(Div(Sub(exit_price, entry_price), entry_price), Num(100))

(* Mutant: the entry price is read from the exit row. *)
NewTrade_RowEntry(pos, k) ==
    [entry_date  |-> pos.entry_date,
     entry_price |-> Num(Close(k)),
     exit_date   |-> iloc(k).date,
     exit_price  |-> ExitPrice(pos, k),
     pnl_pct     |-> PnlPct(pos.entry_price, ExitPrice(pos, k)),
     reason      |-> ExitReason(pos, k)]

NewTrade(pos, k) ==
    [entry_date  |-> pos.entry_date,
     entry_price |-> pos.entry_price,
     exit_date   |-> iloc(k).date,
     exit_price  |-> ExitPrice(pos, k),
     pnl_pct     |-> PnlPct(pos.entry_price, ExitPrice(pos, k)),
     reason      |-> ExitReason(pos, k)]

(* Mutant: the entry test runs on every row. *)
CheckEntry_Always == TRUE

CheckEntry == position = None

----------------------------------------------------------------------------
(* The state machine. *)

(* The bars of one day: low <= close <= high on the price levels, with   *)
(* the close at the high of the day.                                       *)
Bars == {b \in [low : Prices, close : Prices, high : Prices] :
            b.low <= b.close /\ b.high = b.close}

Config(f, s, p, m) ==
    [ma_fast |-> f, ma_slow |-> s, atr_period |-> p, atr_multiplier |-> m]

(* The parameter settings of the checked runs (ma_fast, ma_slow,           *)
(* atr_period, atr_multiplier).                                            *)
Configs == {Config(1, 2, 1, 1), Config(2, 3, 2, 2), Config(1, 2, 4, 1)}

(* Mutant: the loop starts one row early. *)
LoopStart_Early == cfg.ma_slow - 1

(* Mutant: the start is clamped to the last row of a short table. *)
LoopStart_Clamped == IF cfg.ma_slow < len THEN cfg.ma_slow ELSE len - 1

(* range(ma_slow, len(df)) starts here. *)
LoopStart == cfg.ma_slow

Init ==
    /\ \E n \in 0..MaxBars : \E rows \in [1..n -> Bars] :
          df = [k \in 1..n |->
                  [date |-> k, low |-> rows[k].low, close |-> rows[k].close,
                   high |-> rows[k].high]]
    /\ cfg \in Configs
    /\ i = LoopStart
    /\ position = None
    /\ trades = <<>>
    /\ pc = "loop"
    /\ ledgers = <<>>
    /\ entries = 0

(* Mutant: the exit test also runs on the row that opens the position. *)
Enter_SameBarExit ==
    /\ pc = "loop" /\ i < len
    /\ CheckEntry /\ EntrySignal(i)
    /\ IF ExitReason(NewPosition(i), i) # "None"
       THEN /\ trades' = Append(trades, NewTrade(NewPosition(i), i))
            /\ position' = None
       ELSE /\ trades' = trades
            /\ position' = <<NewPosition(i)>>
    /\ i' = i + 1
    /\ entries' = entries + 1
    /\ UNCHANGED <<df, cfg, pc, ledgers>>

Enter ==
    /\ pc = "loop" /\ i < len
    /\ CheckEntry /\ EntrySignal(i)
    /\ position' = <<NewPosition(i)>>
    /\ i' = i + 1
    /\ entries' = entries + 1
    /\ UNCHANGED <<df, cfg, trades, pc, ledgers>>

(* Mutant: a row without entry also skips the row after it. *)
StayFlat_SkipRow ==
    /\ pc = "loop" /\ i < len
    /\ CheckEntry /\ ~EntrySignal(i)
    /\ i' = i + 2
    /\ UNCHANGED <<df, cfg, position, trades, pc, ledgers, entries>>

StayFlat ==
    /\ pc = "loop" /\ i < len
    /\ CheckEntry /\ ~EntrySignal(i)
    /\ i' = i + 1
    /\ UNCHANGED <<df, cfg, position, trades, pc, ledgers, entries>>

(* Mutant: the new trade replaces the list. *)
Exit_Replace ==
    /\ pc = "loop" /\ i < len
    /\ ~CheckEntry /\ ExitReason(position[1], i) # "None"
    /\ trades' = <<NewTrade(position[1], i)>>
    /\ position' = None
    /\ i' = i + 1
    /\ UNCHANGED <<df, cfg, pc, ledgers, entries>>

(* Mutant: the new trade is put at the head of the list. *)
Exit_Prepend ==
    /\ pc = "loop" /\ i < len
    /\ ~CheckEntry /\ ExitReason(position[1], i) # "None"
    /\ trades' = <<NewTrade(position[1], i)>> \o trades
    /\ position' = None
    /\ i' = i + 1
    /\ UNCHANGED <<df, cfg, pc, ledgers, entries>>

(* Mutant: the row that closes a position also runs the entry test. *)
Exit_Reenter ==
    /\ pc = "loop" /\ i < len
    /\ ~CheckEntry /\ ExitReason(position[1], i) # "None"
    /\ trades' = Append(trades, NewTrade(position[1], i))
    /\ IF EntrySignal(i)
       THEN position' = <<NewPosition(i)>> /\ entries' = entries + 1
       ELSE position' = None /\ entries' = entries
    /\ i' = i + 1
    /\ UNCHANGED <<df, cfg, pc, ledgers>>

Exit ==
    /\ pc = "loop" /\ i < len
    /\ ~CheckEntry /\ ExitReason(position[1], i) # "None"
    /\ trades' = Append(trades, NewTrade(position[1], i))
    /\ position' = None
    /\ i' = i + 1
    /\ UNCHANGED <<df, cfg, pc, ledgers, entries>>

(* Mutant: a held position has its stop recomputed from the current row. *)
Hold_TrailingStop ==
    /\ pc = "loop" /\ i < len
    /\ ~CheckEntry /\ ExitReason(position[1], i) = "None"
    /\ position' = <<[position[1] EXCEPT
                        !.stop_loss = NewPosition(i).stop_loss]>>
    /\ i' = i + 1
    /\ UNCHANGED <<df, cfg, trades, pc, ledgers, entries>>

Hold ==
    /\ pc = "loop" /\ i < len
    /\ ~CheckEntry /\ ExitReason(position[1], i) = "None"
    /\ i' = i + 1
    /\ UNCHANGED <<df, cfg, position, trades, pc, ledgers, entries>>

(* Mutant: a position left open is closed at the last close. *)
Return_ForceClose ==
    /\ pc = "loop" /\ i >= len
    /\ trades' = IF position = None THEN trades
                  ELSE Append(trades,
                         [entry_date  |-> position[1].entry_date,
                          entry_price |-> position[1].entry_price,
                          exit_date   |-> iloc(len - 1).date,
                          exit_price  |-> Num(Close(len - 1)),
                          pnl_pct     |-> PnlPct(position[1].entry_price,
                                                 Num(Close(len - 1))),
                          reason      |-> "End"])
    /\ position' = None
    /\ ledgers' = Append(ledgers, trades')
    /\ pc' = "returned"
    /\ UNCHANGED <<df, cfg, i, entries>>

Return ==
    /\ pc = "loop" /\ i >= len
    /\ ledgers' = Append(ledgers, trades)
    /\ pc' = "returned"
    /\ UNCHANGED <<df, cfg, i, position, trades, entries>>

(* Mutant: the trade list survives from the first call. *)
Call_KeepTrades ==
    /\ pc = "returned" /\ Len(ledgers) = 1
    /\ i' = LoopStart
    /\ position' = None
    /\ trades' = trades
    /\ entries' = 0
    /\ pc' = "loop"
    /\ UNCHANGED <<df, cfg, ledgers>>

(* The caller runs the backtest a second time on the same table and        *)
(* parameters.                                                             *)
Call ==
    /\ pc = "returned" /\ Len(ledgers) = 1
    /\ i' = LoopStart
    /\ position' = None
    /\ trades' = <<>>
    /\ entries' = 0
    /\ pc' = "loop"
    /\ UNCHANGED <<df, cfg, ledgers>>

Next == Enter \/ StayFlat \/ Exit \/ Hold \/ Return

Spec == Init /\ [][Next]_vars

(* Repeated runs on the same input. *)
NextRepeat == Next \/ Call

SpecRepeat == Init /\ [][NextRepeat]_vars

----------------------------------------------------------------------------
(* A call with a window that is not positive.  run_backtest tests none of  *)
(* its parameters: the only rejection is the ValueError that              *)
(* Series.rolling raises for a negative window, while computing the        *)
(* indicator columns; rolling(0).mean() is NaN on every row.               *)

ConfigsNonPositive ==
    {Config(0, 2, 1, 1), Config(1, 0, 1, 1), Config(1, 2, 0, 1),
     Config(1, 2, -1, 1)}

NonPositive(c) == c.ma_fast <= 0 \/ c.ma_slow <= 0 \/ c.atr_period <= 0

RollingRaises(c) == c.ma_fast < 0 \/ c.ma_slow < 0 \/ c.atr_period < 0

InitConfig ==
    /\ \E n \in 0..MaxBars : \E rows \in [1..n -> Bars] :
          df = [k \in 1..n |->
                  [date |-> k, low |-> rows[k].low, close |-> rows[k].close,
                   high |-> rows[k].high]]
    /\ cfg \in ConfigsNonPositive
    /\ i = LoopStart
    /\ position = None
    /\ trades = <<>>
    /\ pc = "call"
    /\ ledgers = <<>>
    /\ entries = 0

(* Lines 54-60: the indicator columns are computed and the loop begins. *)
Indicators ==
    /\ pc = "call" /\ ~RollingRaises(cfg)
    /\ pc' = "loop"
    /\ UNCHANGED <<df, cfg, i, position, trades, ledgers, entries>>

(* Lines 55-57: rolling() raises on a negative window. *)
Raise ==
    /\ pc = "call" /\ RollingRaises(cfg)
    /\ pc' = "failed"
    /\ UNCHANGED <<df, cfg, i, position, trades, ledgers, entries>>

NextConfig == Indicators \/ Raise \/ Next

SpecConfig == InitConfig /\ [][NextConfig]_vars

----------------------------------------------------------------------------
(* A call on a table whose dates are not ascending.  run_backtest never    *)
(* reads the date column except to copy it into positions and trades.      *)

DateOrders == {"descending", "repeated"}

DatesAscending == \A k \in 1..(len - 1) : df[k].date < df[k + 1].date

InitMalformed ==
    /\ \E n \in 0..MaxBars : \E rows \in [1..n -> Bars] : \E order \in DateOrders :
          df = [k \in 1..n |->
                  [date |-> IF order = "descending" THEN n + 1 - k
                            ELSE (k + 1) \div 2,
                   low |-> rows[k].low, close |-> rows[k].close,
                   high |-> rows[k].high]]
    /\ cfg = Config(1, 2, 1, 1)
    /\ i = LoopStart
    /\ position = None
    /\ trades = <<>>
    /\ pc = "loop"
    /\ ledgers = <<>>
    /\ entries = 0

SpecMalformed == InitMalformed /\ [][Next]_vars

----------------------------------------------------------------------------
(* Calls on 80-row tables with ma_fast = 20 and ma_slow = 60: the closes   *)
(* rise by `up` a row over rows 0..64 and fall by `down` a row over rows   *)
(* 65..79; low and high lie `spread` below and above the close.  With      *)
(* dipRow >= 0 the close of that one row is pulled 12 * up below the line. *)

ScenarioClose(r, up, down, dipRow) ==
    IF r <= 64
    THEN 100 + up * r - (IF r = dipRow THEN 12 * up ELSE 0)
    ELSE 100 + up * 64 - down * (r - 64)

Scenario(up, down, dipRow, spread) ==
    [k \in 1..80 |->
       [date  |-> k,
        low   |-> ScenarioClose(k - 1, up, down, dipRow) - spread,
        close |-> ScenarioClose(k - 1, up, down, dipRow),
        high  |-> ScenarioClose(k - 1, up, down, dipRow) + spread]]

InitScenario ==
    /\ \E up \in {1, 2} : \E down \in {5, 10} : \E dipRow \in {-1, 59, 61} :
       \E spread \in {0, 1} :
          df = Scenario(up, down, dipRow, spread)
    /\ cfg = Config(20, 60, 14, 2)
    /\ i = LoopStart
    /\ position = None
    /\ trades = <<>>
    /\ pc = "loop"
    /\ ledgers = <<>>
    /\ entries = 0

SpecScenario == InitScenario /\ [][Next]_vars

----------------------------------------------------------------------------
(* Calls on short tables whose bars have a high above the close, for the   *)
(* true range.                                                             *)

BarsFull == {b \in [low : Prices, close : Prices, high : Prices] :
                b.low <= b.close /\ b.close <= b.high}

InitAtr ==
    /\ \E n \in 0..(MaxBars - 2) : \E rows \in [1..n -> BarsFull] :
          df = [k \in 1..n |->
                  [date |-> k, low |-> rows[k].low, close |-> rows[k].close,
                   high |-> rows[k].high]]
    /\ cfg \in {Config(1, 2, 1, 1), Config(1, 2, 2, 1)}
    /\ i = LoopStart
    /\ position = None
    /\ trades = <<>>
    /\ pc = "loop"
    /\ ledgers = <<>>
    /\ entries = 0

SpecAtr == InitAtr /\ [][Next]_vars

----------------------------------------------------------------------------
(* Calls on short tables with a fast window below, equal to and above the  *)
(* slow window; run_backtest accepts any of them.                          *)

ConfigsWindows ==
    {Config(1, 2, 1, 1), Config(2, 2, 1, 1), Config(3, 2, 1, 1),
     Config(4, 2, 1, 1)}

InitWindows ==
    /\ \E n \in 0..(MaxBars - 2) : \E rows \in [1..n -> Bars] :
          df = [k \in 1..n |->
                  [date |-> k, low |-> rows[k].low, close |-> rows[k].close,
                   high |-> rows[k].high]]
    /\ cfg \in ConfigsWindows
    /\ i = LoopStart
    /\ position = None
    /\ trades = <<>>
    /\ pc = "loop"
    /\ ledgers = <<>>
    /\ entries = 0

SpecWindows == InitWindows /\ [][Next]_vars

(* The interpreter runs the loop to its end: a step that can be taken is   *)
(* taken.                                                                  *)
SpecFair == InitWindows /\ [][Next]_vars /\ WF_vars(Next)

----------------------------------------------------------------------------
(* Properties.  The definitions of this section state what is claimed of   *)
(* run_backtest, in terms of the bar table and the visible state only.     *)

Rows == 0..(len - 1)

(* The index of the bar that carries a date. *)
RowOf(date) == CHOOSE k \in Rows : iloc(k).date = date

LastOf(s) == s[Len(s)]

(* A loop iteration is about to process row i. *)
AtRow == pc = "loop" /\ i < len

(* The sum of the closes of rows lo..hi. *)
RECURSIVE SumCloses(_, _)
SumCloses(lo, hi) == IF lo > hi THEN 0 ELSE iloc(hi).close + SumCloses(lo, hi - 1)

(* fast_ma[k] > slow_ma[k], both being means of the trailing closes. *)
FastAboveSlow(k) ==
    /\ k + 1 >= cfg.ma_fast /\ k + 1 >= cfg.ma_slow
    /\ SumCloses(k - cfg.ma_fast + 1, k) * cfg.ma_slow
          > SumCloses(k - cfg.ma_slow + 1, k) * cfg.ma_fast

(* close[k-1] <= fast_ma[k-1] and fast_ma[k-1] < close[k]. *)
CrossAbove(k) ==
    /\ k >= cfg.ma_fast
    /\ iloc(k - 1).close * cfg.ma_fast <= SumCloses(k - cfg.ma_fast, k - 1)
    /\ SumCloses(k - cfg.ma_fast, k - 1) < iloc(k).close * cfg.ma_fast

(* C1: before and after every step the engine holds zero or one open       *)
(* position, and a step that opens a position starts with none open.       *)
C1_AtMostOnePosition ==
    [][/\ Len(position) <= 1 /\ Len(position') <= 1
       /\ (position' # None /\ position' # position) => position = None]_vars

(* C1 witness: a position is open and an earlier one was closed before. *)
C1_Witness == position # None /\ Len(trades) >= 1

(* C2: on a row processed while Long with low <= stop_loss the position is *)
(* closed on that row with reason StopLoss at exactly the stop level,      *)
(* whatever the trend does on that row.                                    *)
C2_StopLossPriority ==
    [][(AtRow /\ position # None
          /\ Le(Num(iloc(i).low), position[1].stop_loss))
        => /\ position' = None
           /\ Len(trades') = Len(trades) + 1
           /\ LastOf(trades').reason = "StopLoss"
           /\ LastOf(trades').exit_price = position[1].stop_loss
           /\ LastOf(trades').exit_date = iloc(i).date]_vars

(* C2 witness: the row just processed closed a position by its stop while  *)
(* the trend reversed on the same row, at a price that is neither the low  *)
(* nor the close of the row.                                               *)
C2_Witness ==
    /\ pc = "loop" /\ position = None /\ Len(trades) >= 1
    /\ LastOf(trades).exit_date = iloc(i - 1).date
    /\ LastOf(trades).reason = "StopLoss"
    /\ FastAboveSlow(i - 2) /\ ~FastAboveSlow(i - 1)
    /\ ~Eq(LastOf(trades).exit_price, Num(iloc(i - 1).close))
    /\ ~Eq(LastOf(trades).exit_price, Num(iloc(i - 1).low))

(* C3: a row processed while Flat opens a position exactly when the fast   *)
(* MA is above the slow MA on it and the close crosses above the previous  *)
(* fast MA; the position records the row's date, its close, and the close  *)
(* less atr_multiplier times the row's ATR.                                *)
C3_EntryRule ==
    [][(AtRow /\ position = None /\ i >= cfg.ma_slow)
        => /\ (position' # None) <=> (FastAboveSlow(i) /\ CrossAbove(i))
           /\ position' # None =>
                /\ Len(position') = 1
                /\ position'[1].entry_date = iloc(i).date
                /\ position'[1].entry_price = Num(iloc(i).close)
                /\ IF IsNaN(atr(i)) THEN IsNaN(position'[1].stop_loss)
                   ELSE position'[1].stop_loss.num * atr(i).den
                          = (iloc(i).close * atr(i).den
                               - cfg.atr_multiplier * atr(i).num)
                            * position'[1].stop_loss.den]_vars

(* C3 witness: the row just processed opened a position with a real stop. *)
C3_Witness ==
    /\ pc = "loop" /\ position # None
    /\ position[1].entry_date = iloc(i - 1).date
    /\ ~IsNaN(position[1].stop_loss)

(* C4: every position, open or closed, was entered on a row of index at    *)
(* least ma_slow.                                                          *)
C4_WarmUpGating ==
    /\ \A n \in 1..Len(trades) :
          \E k \in Rows : k >= cfg.ma_slow /\ iloc(k).date = trades[n].entry_date
    /\ \A r \in 1..Len(ledgers) : \A n \in 1..Len(ledgers[r]) :
          \E k \in Rows : k >= cfg.ma_slow /\ iloc(k).date = ledgers[r][n].entry_date
    /\ position # None =>
          \E k \in Rows : k >= cfg.ma_slow /\ iloc(k).date = position[1].entry_date

(* C4 witness: a returned trade was entered on row ma_slow itself. *)
C4_Witness ==
    /\ pc = "returned" /\ Len(trades) >= 1
    /\ trades[1].entry_date = iloc(cfg.ma_slow).date

(* C5: the return after the last row leaves an open position open and      *)
(* returns the trades closed so far: one trade per entry, less one when a  *)
(* position is still open, and none of them for that position.             *)
C5_OpenAtEnd ==
    [][(pc = "loop" /\ pc' = "returned")
        => /\ position' = position
           /\ LastOf(ledgers') = trades
           /\ Len(LastOf(ledgers')) = entries - Len(position)
           /\ position # None =>
                \A n \in 1..Len(LastOf(ledgers')) :
                   LastOf(ledgers')[n].entry_date # position[1].entry_date]_vars

(* C5 witness: the run returned one trade with a second position open. *)
C5_Witness ==
    /\ pc = "returned" /\ position # None
    /\ Len(LastOf(ledgers)) = 1 /\ entries = 2

(* C6: a step inside the loop that takes the engine from Long to Flat      *)
(* appends exactly one trade carrying the entry date and entry price of    *)
(* the position it closes; any other step leaves the trade list as it is.  *)
C6_TradeIffClosed ==
    [][pc = "loop" =>
         IF position # None /\ position' = None
         THEN /\ Len(trades') = Len(trades) + 1
              /\ SubSeq(trades', 1, Len(trades)) = trades
              /\ LastOf(trades').entry_date = position[1].entry_date
              /\ LastOf(trades').entry_price = position[1].entry_price
         ELSE trades' = trades]_vars

(* C6 witness: the row just processed closed a position whose entry price  *)
(* differs from the close of that row.                                     *)
C6_Witness ==
    /\ pc = "loop" /\ position = None /\ Len(trades) >= 1
    /\ LastOf(trades).exit_date = iloc(i - 1).date
    /\ ~Eq(LastOf(trades).entry_price, Num(iloc(i - 1).close))

(* A trade list is in strictly ascending order of exit row. *)
ExitOrdered(ledger) ==
    \A n \in 1..(Len(ledger) - 1) :
       RowOf(ledger[n].exit_date) < RowOf(ledger[n + 1].exit_date)

(* C7: the trade list, while it is built and when it is returned, is in    *)
(* strictly ascending order of exit row.                                   *)
C7_ExitChronological ==
    /\ ExitOrdered(trades)
    /\ \A r \in 1..Len(ledgers) : ExitOrdered(ledgers[r])

(* C7 witness: a run returned two trades. *)
C7_Witness == pc = "returned" /\ Len(LastOf(ledgers)) >= 2

(* C8: on a table with fewer rows than ma_slow the loop body is never      *)
(* entered, so the run goes straight to its return, and the table         *)
(* returned has no trade.                                                  *)
C8_ShortInput ==
    len < cfg.ma_slow =>
       /\ pc = "loop" => (i >= len /\ trades = <<>> /\ position = None)
       /\ pc = "returned" => (Len(ledgers) >= 1 /\ LastOf(ledgers) = <<>>)

(* C8 witness: a run on a table one row short of ma_slow has returned. *)
C8_Witness == pc = "returned" /\ len >= 1 /\ len = cfg.ma_slow - 1

Sign(n) == IF n > 0 THEN 1 ELSE IF n < 0 THEN -1 ELSE 0

(* pnl_pct = (exit_price - entry_price) / entry_price * 100, with the sign *)
(* of exit_price - entry_price.                                            *)
PnlOk(t) ==
    LET x == t.exit_price
        e == t.entry_price
        p == t.pnl_pct
    IN  /\ p.den > 0 /\ x.den > 0 /\ e.den > 0
        /\ p.num * (x.den * e.num) = p.den * 100 * (x.num * e.den - e.num * x.den)
        /\ Sign(p.num) = Sign(x.num * e.den - e.num * x.den)

(* C9: every trade has pnl_pct = (exit_price - entry_price) / entry_price  *)
(* * 100, of the sign of exit_price - entry_price; 100 to 110 gives 10 and *)
(* 100 to 90 gives -10.                                                    *)
C9_PnlAccounting ==
    /\ \A n \in 1..Len(trades) : PnlOk(trades[n])
    /\ \A r \in 1..Len(ledgers) : \A n \in 1..Len(ledgers[r]) : PnlOk(ledgers[r][n])
    /\ Len(trades) >= 1 =>
          /\ Eq(PnlPct(Num(100), Num(110)), Num(10))
          /\ Eq(PnlPct(Num(100), Num(90)), Num(-10))

(* C9 witness: a returned trade made a profit. *)
C9_Witness ==
    /\ pc = "returned"
    /\ \E n \in 1..Len(trades) : trades[n].pnl_pct.num > 0

(* C10: the second run on the same table and parameters returns the same   *)
(* trade table as the first.                                               *)
C10_Determinism == Len(ledgers) = 2 => ledgers[1] = ledgers[2]

(* C10 witness: two runs have returned, each with trades. *)
C10_Witness == Len(ledgers) = 2 /\ Len(ledgers[1]) >= 1

(* C11: a call with a fast window, slow window or ATR period that is not   *)
(* positive is rejected before any row is iterated: it never reaches the   *)
(* loop and never returns a trade table.                                   *)
C11_ConfigRejected ==
    NonPositive(cfg) => (pc # "loop" /\ pc # "returned")

(* C12: a run on a table whose dates are not ascending surfaces a failure  *)
(* and never returns a trade table computed across the bad rows.           *)
C12_MalformedRejected == ~DatesAscending => pc # "returned"

(* The closes rise strictly over rows 0..64 and fall strictly from there. *)
RisesThenFalls ==
    /\ len = 80
    /\ \A r \in 0..63 : iloc(r).close < iloc(r + 1).close
    /\ \A r \in 64..78 : iloc(r).close > iloc(r + 1).close

(* C13 as amended: on an 80-row table whose closes rise strictly for 65    *)
(* rows and then fall strictly for 15, with ma_fast 20 and ma_slow 60, no  *)
(* position is ever opened and the returned table has no trade.            *)
C13_NoTradeOnSteadyRise ==
    (RisesThenFalls /\ cfg.ma_fast = 20 /\ cfg.ma_slow = 60)
      => /\ position = None /\ trades = <<>>
         /\ pc = "returned" => LastOf(ledgers) = <<>>

(* C13 witness: the run on such a table has returned. *)
C13_Witness ==
    /\ RisesThenFalls /\ cfg.ma_fast = 20 /\ cfg.ma_slow = 60
    /\ pc = "returned" /\ i = 80

(* C13 as claimed: such a run returns exactly one trade, entered at about  *)
(* bar 61, closed by trend reversal, with a positive pnl_pct.              *)
C13_OneTradeOnSteadyRise ==
    (RisesThenFalls /\ cfg.ma_fast = 20 /\ cfg.ma_slow = 60 /\ pc = "returned")
      => /\ Len(LastOf(ledgers)) = 1
         /\ RowOf(LastOf(ledgers)[1].entry_date) \in 59..62
         /\ LastOf(ledgers)[1].reason = "TrendReversal"
         /\ LastOf(ledgers)[1].pnl_pct.num > 0

(* v is the largest member of the set S. *)
IsMaxOf(v, S) == v \in S /\ \A x \in S : x <= v

(* The true range of row k as it is defined: high - low on row 0, and the  *)
(* largest of high - low, |high - prev_close| and |low - prev_close| on    *)
(* the later rows.                                                         *)
IsTrueRange(v, k) ==
    IF k = 0 THEN v = iloc(0).high - iloc(0).low
    ELSE IsMaxOf(v, {iloc(k).high - iloc(k).low,
                     Abs(iloc(k).high - iloc(k - 1).close),
                     Abs(iloc(k).low - iloc(k - 1).close)})

(* C14: the one-period ATR of every row is a real number, the true range   *)
(* of the row: high - low on row 0, also when it is the only row, and the  *)
(* largest of the three gaps on every later row.                           *)
C14_AtrFirstBar ==
    \A k \in Rows :
       /\ ~IsNaN(calc_atr(k, 1))
       /\ calc_atr(k, 1).den = 1
       /\ IsTrueRange(calc_atr(k, 1).num, k)

(* C14 witness: a run with atr_period 1 on a one-row table whose high is   *)
(* above its low has returned.                                             *)
C14_Witness ==
    /\ pc = "returned" /\ len = 1 /\ cfg.atr_period = 1
    /\ iloc(0).high > iloc(0).low
    /\ Eq(atr(0), Num(iloc(0).high - iloc(0).low))

(* C15: a position that is open was entered on a row e with                *)
(* close[e-1] <= fast_ma[e-1] and close[e] > fast_ma[e], the fast MA of    *)
(* the entry row itself.                                                   *)
C15_CrossCurrentMA ==
    position # None =>
       LET e == RowOf(position[1].entry_date)
       IN  /\ iloc(e - 1).close * cfg.ma_fast
                <= SumCloses(e - cfg.ma_fast, e - 1)
           /\ iloc(e).close * cfg.ma_fast
                > SumCloses(e - cfg.ma_fast + 1, e)

(* C16: on a row processed while Long on which the stop test fails, the    *)
(* position is closed exactly when the fast MA was above the slow MA on    *)
(* the previous row and is not on this one; the trade then exits at the    *)
(* row's close with reason TrendReversal.  Otherwise the position and the  *)
(* trade list are left as they are.                                        *)
C16_TrendReversalExit ==
    [][(AtRow /\ position # None
          /\ ~Le(Num(iloc(i).low), position[1].stop_loss))
        => IF FastAboveSlow(i - 1) /\ ~FastAboveSlow(i)
           THEN /\ position' = None
                /\ Len(trades') = Len(trades) + 1
                /\ SubSeq(trades', 1, Len(trades)) = trades
                /\ LastOf(trades').reason = "TrendReversal"
                /\ LastOf(trades').exit_price = Num(iloc(i).close)
                /\ LastOf(trades').exit_date = iloc(i).date
           ELSE position' = position /\ trades' = trades]_vars

(* C16 witness: the row just processed closed a position by trend reversal *)
(* above a real stop, at a close that differs from the previous close.     *)
C16_Witness ==
    /\ pc = "loop" /\ position = None /\ Len(trades) >= 1
    /\ LastOf(trades).exit_date = iloc(i - 1).date
    /\ LastOf(trades).reason = "TrendReversal"
    /\ iloc(i - 1).close # iloc(i - 2).close
    /\ \E k \in Rows : /\ iloc(k).date = LastOf(trades).entry_date
                       /\ ~IsNaN(atr(k))

(* The stop level of a position entered on row e:                          *)
(* close[e] - atr_multiplier * atr[e], NaN when that ATR is NaN.           *)
IsEntryStop(stop, e) ==
    IF IsNaN(atr(e)) THEN IsNaN(stop)
    ELSE /\ ~IsNaN(stop)
         /\ stop.num * atr(e).den
              = (iloc(e).close * atr(e).den - cfg.atr_multiplier * atr(e).num)
                * stop.den

(* C17: an open position carries the close of its entry row as entry       *)
(* price and that close less atr_multiplier times the ATR of the entry row *)
(* as stop, and a step that leaves it open leaves all its fields as they   *)
(* are.                                                                    *)
C17_StopFixedAtEntry ==
    [][(pc = "loop" /\ position # None)
        => /\ position[1].entry_price = Num(iloc(RowOf(position[1].entry_date)).close)
           /\ IsEntryStop(position[1].stop_loss, RowOf(position[1].entry_date))
           /\ position' # None => position' = position]_vars

(* C17 witness: a position was held through the row just processed, whose  *)
(* close and ATR would give another stop.                                  *)
C17_Witness ==
    /\ pc = "loop" /\ position # None
    /\ RowOf(position[1].entry_date) < i - 1
    /\ ~IsNaN(position[1].stop_loss) /\ ~IsNaN(atr(i - 1))
    /\ ~IsEntryStop(position[1].stop_loss, i - 1)

(* C18: every step of a run keeps the trade list as a prefix of the new    *)
(* list and adds at most one trade; a table once returned stays as it is.  *)
C18_AppendOnly ==
    [][pc = "loop" =>
         /\ Len(trades') \in {Len(trades), Len(trades) + 1}
         /\ SubSeq(trades', 1, Len(trades)) = trades
         /\ \A r \in 1..Len(ledgers) : ledgers'[r] = ledgers[r]]_vars

(* C18 witness: the row just processed added a second trade to the list. *)
C18_Witness ==
    /\ pc = "loop" /\ Len(trades) = 2
    /\ trades[2].exit_date = iloc(i - 1).date
    /\ trades[1] # trades[2]

(* C19: every trade exits on a row after its entry row. *)
C19_ExitAfterEntry ==
    /\ \A n \in 1..Len(trades) :
          RowOf(trades[n].entry_date) < RowOf(trades[n].exit_date)
    /\ \A r \in 1..Len(ledgers) : \A n \in 1..Len(ledgers[r]) :
          RowOf(ledgers[r][n].entry_date) < RowOf(ledgers[r][n].exit_date)

(* C19 witness: a trade whose entry row had its low at or below the stop   *)
(* set on that row.                                                        *)
C19_Witness ==
    \E n \in 1..Len(trades) :
       LET e == RowOf(trades[n].entry_date)
       IN  /\ ~IsNaN(atr(e))
           /\ iloc(e).low * atr(e).den
                <= iloc(e).close * atr(e).den - cfg.atr_multiplier * atr(e).num

(* The stop test and the trend reversal both hold on row i, while Long. *)
BothExitsHold ==
    /\ AtRow /\ position # None
    /\ Le(Num(iloc(i).low), position[1].stop_loss)
    /\ FastAboveSlow(i - 1) /\ ~FastAboveSlow(i)

(* C20 as amended: on a row where the stop test and the trend reversal     *)
(* both hold while Long, the trade exits at stop_loss, which is not below  *)
(* the low of the row (it can be above the close of the row).              *)
C20_StopNotBelowLow ==
    [][BothExitsHold
        => /\ Len(trades') = Len(trades) + 1
           /\ LastOf(trades').exit_price = position[1].stop_loss
           /\ Le(Num(iloc(i).low), LastOf(trades').exit_price)]_vars

(* C20 witness: the row just processed closed a position by its stop, on   *)
(* a trend reversal, at a price above the close of the row.                *)
C20_Witness ==
    /\ pc = "loop" /\ position = None /\ Len(trades) >= 1
    /\ LastOf(trades).exit_date = iloc(i - 1).date
    /\ LastOf(trades).reason = "StopLoss"
    /\ FastAboveSlow(i - 2) /\ ~FastAboveSlow(i - 1)
    /\ Lt(Num(iloc(i - 1).close), LastOf(trades).exit_price)

(* C20 as claimed: on such a row the stop level is not above the close of  *)
(* the row.                                                                *)
C20_StopNotAboveClose ==
    [][BothExitsHold => Le(position[1].stop_loss, Num(iloc(i).close))]_vars

(* C21: every open position has its stop below its entry price, and every  *)
(* trade closed by the stop exits below its entry price, with a negative   *)
(* pnl_pct.                                                                *)
C21_StopBelowEntry ==
    /\ position # None =>
          Lt(position[1].stop_loss, position[1].entry_price)
    /\ \A n \in 1..Len(trades) :
          trades[n].reason = "StopLoss" =>
             /\ Lt(trades[n].exit_price, trades[n].entry_price)
             /\ Lt(trades[n].pnl_pct, Num(0))


(* Both moving averages are available on row k. *)
BothAvailable(k) == ~IsNaN(ma_fast(k)) /\ ~IsNaN(ma_slow(k))

(* C22 as amended: a moving average of window N is unavailable exactly on  *)
(* rows 0..N-2; the first row with both averages available is the larger   *)
(* window less one, which is row ma_slow - 1 when ma_fast <= ma_slow, one   *)
(* row below the index ma_slow where the iteration starts.                 *)
C22_BothAvailableBeforeStart ==
    /\ \A k \in Rows :
          /\ IsNaN(ma_fast(k)) <=> k <= cfg.ma_fast - 2
          /\ IsNaN(ma_slow(k)) <=> k <= cfg.ma_slow - 2
          /\ BothAvailable(k) <=> k >= Max(cfg.ma_fast, cfg.ma_slow) - 1
    /\ (cfg.ma_fast <= cfg.ma_slow /\ len >= cfg.ma_slow) =>
          BothAvailable(cfg.ma_slow - 1)
    /\ i >= cfg.ma_slow
    /\ i = cfg.ma_slow => (entries = 0 /\ position = None /\ trades = <<>>)

(* C22 witness: the first iteration has run, on row ma_slow, and opened a  *)
(* position; both averages were available one row before it and the slow   *)
(* one was not two rows before it.                                         *)
C22_Witness ==
    /\ pc = "loop" /\ i = cfg.ma_slow + 1 /\ position # None
    /\ BothAvailable(cfg.ma_slow - 1)
    /\ IsNaN(ma_slow(cfg.ma_slow - 2))

(* C22 as claimed: no row below index ma_slow has both moving averages     *)
(* available.                                                              *)
C22_StartIsFirstAvailable ==
    \A k \in Rows : k < cfg.ma_slow => ~BothAvailable(k)


(* C23: a run starts at row ma_slow, every step inside the table goes to   *)
(* the next row and stays in the loop, the return happens exactly when     *)
(* the index has passed the last row and hands back the trade list, and    *)
(* every run does return.                                                  *)
C23_TerminatesInOrder ==
    /\ [][AtRow => (i' = i + 1 /\ pc' = "loop")]_vars
    /\ [][pc' = "returned" =>
            /\ pc = "loop" /\ i' = i /\ i = Max(len, cfg.ma_slow)
            /\ ledgers' = Append(ledgers, trades)]_vars
    /\ [](i >= cfg.ma_slow /\ i <= Max(len, cfg.ma_slow))
    /\ <>(pc = "returned")

(* C23 witness: a run over two rows or more has returned with a trade. *)
C23_Witness ==
    /\ pc = "returned" /\ i = len /\ len >= cfg.ma_slow + 2
    /\ Len(LastOf(ledgers)) >= 1


(* C24: whenever a position is open, the fast MA is above the slow MA on   *)
(* the row processed last, and on every row from the entry row to that     *)
(* one.                                                                    *)
C24_HeldOnlyInUptrend ==
    position # None =>
       /\ i >= cfg.ma_slow + 1
       /\ FastAboveSlow(i - 1)
       /\ \A k \in Rows :
             (RowOf(position[1].entry_date) <= k /\ k <= i - 1)
                => FastAboveSlow(k)

(* C24 witness: a position was held through two rows after its entry row,  *)
(* the last of them with a lower close than the row before.               *)
C24_Witness ==
    /\ pc = "loop" /\ position # None
    /\ RowOf(position[1].entry_date) = i - 3
    /\ iloc(i - 1).close < iloc(i - 2).close


(* The trades of a list do not overlap: each is entered on a row after the *)
(* exit row of the one before it.                                          *)
NoOverlap(ledger) ==
    \A n \in 1..(Len(ledger) - 1) :
       RowOf(ledger[n].exit_date) < RowOf(ledger[n + 1].entry_date)

(* C25: a step that closes a position leaves the engine flat and opens     *)
(* nothing; consecutive trades do not overlap, and an open position was    *)
(* entered on a row after the exit row of the last trade.                  *)
C25_NoSameBarReentry ==
    /\ [][Len(trades') = Len(trades) + 1
            => (position' = None /\ entries' = entries)]_vars
    /\ [](/\ NoOverlap(trades)
          /\ \A r \in 1..Len(ledgers) : NoOverlap(ledgers[r])
          /\ (position # None /\ Len(trades) >= 1) =>
                RowOf(LastOf(trades).exit_date)
                   < RowOf(position[1].entry_date))

(* C25 witness: the row just processed closed a position while the entry   *)
(* conditions held on that same row.                                       *)
C25_Witness ==
    /\ pc = "loop" /\ position = None /\ Len(trades) >= 1
    /\ LastOf(trades).exit_date = iloc(i - 1).date
    /\ FastAboveSlow(i - 1) /\ CrossAbove(i - 1)


(* C26: whenever a position is open, the ATR of its entry row is available *)
(* and its stop is a real number.                                          *)
C26_AtrAvailableAtEntry ==
    position # None =>
       /\ ~IsNaN(atr(RowOf(position[1].entry_date)))
       /\ ~IsNaN(position[1].stop_loss)


====
